---- MODULE Spec2Model ----
(***************************************************************************)
(* Model of the watermark remover: the position schedule and the region    *)
(* geometry of VideoAnalyzer, the frame pipeline of                        *)
(* WatermarkProcessor.process() with its resources and exit paths, the     *)
(* command-line entry remove_watermark, and the region blur transform of   *)
(* both processor classes on pixel grids.                                  *)
(***************************************************************************)
EXTENDS Integers, Sequences, FiniteSets, TLC

Min(a, b) == IF a < b THEN a ELSE b
Max(a, b) == IF a > b THEN a ELSE b

(***************************************************************************)
(* VideoAnalyzer: class constants and the geometry constants of            *)
(* get_watermark_positions.                                                *)
(***************************************************************************)
POSITION_COUNT == 3
CYCLE_FRAMES == 227
left_margin_top == 20
left_margin_bottom == 25
right_margin == 10
top_offset == 75
center_y == 592
bottom_offset == 260

WatermarkPosition(px, py, pw, ph) == [x |-> px, y |-> py, width |-> pw, height |-> ph]

\* Mutant of get_watermark_positions: region 1 anchored to the left edge.
get_watermark_positions_left(w, h, wm_width, wm_height) ==
    << WatermarkPosition(left_margin_top, top_offset, wm_width, wm_height),
       WatermarkPosition(right_margin, center_y, wm_width, wm_height),
       WatermarkPosition(left_margin_bottom, h - bottom_offset, wm_width, wm_height) >>

\* The three rectangles; element i + 1 is the Python list's positions[i].
get_watermark_positions(w, h, wm_width, wm_height) ==
    << WatermarkPosition(left_margin_top, top_offset, wm_width, wm_height),
       WatermarkPosition(w - wm_width - right_margin, center_y, wm_width, wm_height),
       WatermarkPosition(left_margin_bottom, h - bottom_offset, wm_width, wm_height) >>

\* Mutant of get_position_index_for_frame: the time-based schedule
\* floor(frame / fps / 2.3) mod 3.
get_position_index_for_frame_timed(frame_number, fps) ==
    IF fps <= 0 THEN 0
    ELSE ((frame_number * 10) \div (fps * 23)) % POSITION_COUNT

\* Mutant of get_position_index_for_frame: the first boundary compared with <=.
get_position_index_for_frame_inclusive(frame_number, fps) ==
    LET cycle_frame == frame_number % CYCLE_FRAMES
    IN  IF cycle_frame <= 66 THEN 0
        ELSE IF cycle_frame < 146 THEN 1
        ELSE 2

get_position_index_for_frame(frame_number, fps) ==
    LET cycle_frame == frame_number % CYCLE_FRAMES
    IN  IF cycle_frame < 66 THEN 0
        ELSE IF cycle_frame < 146 THEN 1
        ELSE 2

(***************************************************************************)
(* The region of interest of _apply_blur_to_region: the clamp of the far   *)
(* edges, the early return, and the rows and columns that the slices       *)
(* frame[y:y_end, x:x_end] select.                                         *)
(***************************************************************************)
\* A Python slice bound i on an axis of length n.
SliceBound(i, n) == IF i < 0 THEN Max(i + n, 0) ELSE Min(i, n)

\* kind "skip": the early return; "empty": the slices select nothing;
\* "roi": rows r0..r1-1 and columns c0..c1-1 are blurred and written back.
RoiOf(position, frame_w, frame_h) ==
    LET x == position.x
        y == position.y
        y_end == Min(y + position.height, frame_h)
        x_end == Min(x + position.width, frame_w)
        r0 == SliceBound(y, frame_h)
        r1 == SliceBound(y_end, frame_h)
        c0 == SliceBound(x, frame_w)
        c1 == SliceBound(x_end, frame_w)
    IN  IF y_end <= y \/ x_end <= x
        THEN [kind |-> "skip", r0 |-> 0, r1 |-> 0, c0 |-> 0, c1 |-> 0]
        ELSE IF r1 <= r0 \/ c1 <= c0
        THEN [kind |-> "empty", r0 |-> 0, r1 |-> 0, c0 |-> 0, c1 |-> 0]
        ELSE [kind |-> "roi", r0 |-> r0, r1 |-> r1, c0 |-> c0, c1 |-> c1]

\* What cv2.GaussianBlur / cv2.bilateralFilter do with an empty array depends on
\* the OpenCV build: an assertion error, or an empty result that writes nothing.
EmptyRoiOutcomes == {"raise", "noop"}

(***************************************************************************)
(* Inputs of a run.                                                        *)
(***************************************************************************)
LongFrames == 300
ShortFrames == 150
MissingFrames == 10

\* preview durations, in tenths of a second; <<"none">> is None (or 0.0),
\* <<"inf">> a float whose product with fps is infinite.
Previews == { <<"none">>, <<"sec10", 50>>, <<"inf">> }

\* deliverable: the number of frames cap.read() returns before ret is False.
Videos ==
    { [width |-> 1920, height |-> 1080, fps |-> 30, total_frames |-> LongFrames,
       deliverable |-> LongFrames],
      [width |-> 320, height |-> 200, fps |-> 24,
       total_frames |-> ShortFrames + MissingFrames, deliverable |-> ShortFrames],
      [width |-> 100, height |-> 100, fps |-> 30, total_frames |-> 3,
       deliverable |-> 3] }

BlurValues == {-3, 0, 50, 51}
BoxSizes == { <<139, 51>>, <<0, 51>>, <<139, -1>>, <<400, 100>> }

Args ==
    [ mode : {"cli", "lib"}, blur_intensity : BlurValues, preview : Previews,
      advanced : BOOLEAN, info : BOOLEAN, box : BoxSizes, callback : BOOLEAN ]

VARIABLES
    args,           \* the call's arguments (command-line options or constructor arguments)
    video,          \* the input file as the decoder sees it
    pc,             \* position in remove_watermark / __init__ / process
    processor,      \* << the constructed processor's fields >>, or <<>> before construction
    exc,            \* the exception in flight, "none" when there is none
    failure,        \* what made the run fail, "none" when nothing did
    cliCap,         \* the capture of the command line's own VideoAnalyzer
    analyzerCap,    \* the capture of process()'s VideoAnalyzer
    cap,            \* the reading capture of process()
    out,            \* the VideoWriter of process()
    temp_exists,    \* the scratch file temp_video exists
    temp_created,   \* the scratch file has existed at some time in this run
    output_exists,  \* the merged output file has been written
    metadata,       \* << analyzer.analyze() >>, or <<>>
    positions,      \* analyzer.get_watermark_positions(...), or <<>>
    total_frames,   \* process()'s local total_frames
    frame_number,   \* process()'s local frame_number
    frames_read,    \* frames cap.read() has returned
    ret,            \* the last cap.read()'s ret
    written,        \* the frames given to out.write(), in order
    progress,       \* the progress callback's calls, in order
    merge_calls,    \* calls of _merge_audio
    geom_calls,     \* calls of get_watermark_positions: arguments and result
    blur_frame,     \* the frame buffer given to _apply_blur_to_region
    blur_position,  \* the rectangle given to _apply_blur_to_region
    blur_args,      \* the processor class and its blur_intensity
    blur_pc,        \* "call", "returned" or "raised"
    blur_result,    \* the frame buffer _apply_blur_to_region returned, or << >>
    mask_args,      \* the arguments given to _create_feathered_mask
    mask_pc,        \* "call", "returned" or "raised"
    mask_result,    \* the mask _create_feathered_mask returned, or << >>
    sched_calls     \* the last calls of get_position_index_for_frame, oldest first

vars == << args, video, pc, processor, exc, failure, cliCap, analyzerCap, cap, out,
           temp_exists, temp_created, output_exists, metadata, positions,
           total_frames, frame_number, frames_read, ret, written, progress,
           merge_calls, geom_calls, blur_frame, blur_position, blur_args, blur_pc,
           blur_result, mask_args, mask_pc, mask_result, sched_calls >>

\* The state of the pipeline, of the geometry calls and of the blur calls.
pipeVars == << args, video, pc, processor, exc, failure, cliCap, analyzerCap, cap, out,
               temp_exists, temp_created, output_exists, metadata, positions,
               total_frames, frame_number, frames_read, ret, written, progress,
               merge_calls >>
geomVars == << geom_calls >>
blurVars == << blur_frame, blur_position, blur_args, blur_pc, blur_result >>
maskVars == << mask_args, mask_pc, mask_result >>
schedVars == << sched_calls >>

GeomIdle == geom_calls = << >>
BlurIdle ==
    /\ blur_frame = << >>
    /\ blur_position = << >>
    /\ blur_args = << >>
    /\ blur_pc = "idle"
    /\ blur_result = << >>
MaskIdle ==
    /\ mask_args = << >>
    /\ mask_pc = "idle"
    /\ mask_result = << >>
SchedIdle == sched_calls = << >>

Init ==
    /\ args \in { a \in Args : (a.mode = "cli" => a.callback) /\ (a.mode = "lib" => ~a.info) }
    /\ video \in Videos
    /\ pc = IF args.mode = "cli" THEN "cli_start" ELSE "lib_start"
    /\ processor = <<>>
    /\ exc = "none"
    /\ failure = "none"
    /\ cliCap = "none"
    /\ analyzerCap = "none"
    /\ cap = "none"
    /\ out = "none"
    /\ temp_exists = FALSE
    /\ temp_created = FALSE
    /\ output_exists = FALSE
    /\ metadata = <<>>
    /\ positions = <<>>
    /\ total_frames = 0
    /\ frame_number = 0
    /\ frames_read = 0
    /\ ret = TRUE
    /\ written = <<>>
    /\ progress = <<>>
    /\ merge_calls = 0
    /\ GeomIdle
    /\ BlurIdle
    /\ MaskIdle
    /\ SchedIdle

(***************************************************************************)
(* Configuration checks.                                                   *)
(***************************************************************************)
\* Mutant of InitRejects: only the sign is checked.
InitRejectsSignOnly(blur_intensity) == blur_intensity <= 0

\* WatermarkProcessor.__init__: the condition that raises ValueError.
InitRejects(blur_intensity) == blur_intensity <= 0 \/ blur_intensity % 2 = 0

\* remove_watermark: the condition that prints the error and aborts.
CliRejects(blur_intensity) == blur_intensity % 2 = 0 \/ blur_intensity < 1

\* The fields WatermarkProcessor.__init__ sets.
NewProcessor(a) ==
    [ blur_intensity |-> a.blur_intensity, preview_duration |-> a.preview,
      wm_width |-> a.box[1], wm_height |-> a.box[2], advanced |-> a.advanced ]

\* VideoAnalyzer.analyze(): the properties the pipeline reads.
analyze(v) ==
    [ width |-> v.width, height |-> v.height, fps |-> v.fps,
      total_frames |-> v.total_frames,
      orientation |-> IF v.width > v.height THEN "landscape"
                      ELSE IF v.height > v.width THEN "portrait" ELSE "square" ]

\* int(preview * fps) does not exist for an infinite product: OverflowError.
PreviewOverflows(preview) == preview[1] = "inf"

\* Mutant of FrameLimit: the preview duration is ignored.
FrameLimitNoPreview(meta, preview) == meta.total_frames

\* total_frames as process() and remove_watermark compute it.
FrameLimit(meta, preview) ==
    IF preview[1] = "sec10"
    THEN Min(meta.total_frames, (preview[2] * meta.fps) \div 10)
    ELSE meta.total_frames

(***************************************************************************)
(* remove_watermark (command line) up to the call of process().            *)
(***************************************************************************)
CliValidate ==
    /\ pc = "cli_start"
    /\ UNCHANGED << geomVars, blurVars, maskVars, schedVars >>
    /\ IF CliRejects(args.blur_intensity)
       THEN /\ exc' = "Abort"
            /\ failure' = "config"
            /\ pc' = "cli_aborted"
       ELSE /\ pc' = "cli_open"
            /\ UNCHANGED << exc, failure >>
    /\ UNCHANGED << args, video, processor, cliCap, analyzerCap, cap, out, temp_exists,
                    temp_created, output_exists, metadata, positions, total_frames,
                    frame_number, frames_read, ret, written, progress, merge_calls >>

\* with VideoAnalyzer(input) as analyzer: analyze(); --info returns from the block.
CliOpen ==
    /\ pc = "cli_open"
    /\ UNCHANGED << geomVars, blurVars, maskVars, schedVars >>
    /\ \E opened \in BOOLEAN :
         IF ~opened
         THEN /\ exc' = "Abort"
              /\ failure' = "open_input"
              /\ pc' = "cli_aborted"
              /\ UNCHANGED cliCap
         ELSE /\ cliCap' = IF args.info THEN "released" ELSE "open"
              /\ pc' = IF args.info THEN "cli_done" ELSE "cli_construct"
              /\ UNCHANGED << exc, failure >>
    /\ UNCHANGED << args, video, processor, analyzerCap, cap, out, temp_exists,
                    temp_created, output_exists, metadata, positions, total_frames,
                    frame_number, frames_read, ret, written, progress, merge_calls >>

\* processor_class(...), then the progress bar's total.
CliConstruct ==
    /\ pc = "cli_construct"
    /\ UNCHANGED << geomVars, blurVars, maskVars, schedVars >>
    /\ IF InitRejects(args.blur_intensity)
       THEN /\ exc' = "Abort"
            /\ failure' = "config"
            /\ cliCap' = "released"
            /\ pc' = "cli_aborted"
            /\ UNCHANGED processor
       ELSE IF PreviewOverflows(args.preview)   \* int(preview * metadata.fps)
       THEN /\ processor' = << NewProcessor(args) >>
            /\ exc' = "Abort"
            /\ failure' = "overflow"
            /\ cliCap' = "released"
            /\ pc' = "cli_aborted"
       ELSE /\ processor' = << NewProcessor(args) >>
            /\ pc' = "process_start"
            /\ UNCHANGED << exc, failure, cliCap >>
    /\ UNCHANGED << args, video, analyzerCap, cap, out, temp_exists, temp_created,
                    output_exists, metadata, positions, total_frames, frame_number,
                    frames_read, ret, written, progress, merge_calls >>

\* The with block and the except clauses after process() has returned or raised.
CliExit ==
    /\ pc \in {"returned", "raised"}
    /\ UNCHANGED << geomVars, blurVars, maskVars, schedVars >>
    /\ args.mode = "cli"
    /\ cliCap' = "released"
    /\ exc' = IF exc = "none" THEN "none" ELSE "Abort"
    /\ pc' = IF exc = "none" THEN "cli_done" ELSE "cli_aborted"
    /\ UNCHANGED << args, video, processor, failure, analyzerCap, cap, out, temp_exists,
                    temp_created, output_exists, metadata, positions, total_frames,
                    frame_number, frames_read, ret, written, progress, merge_calls >>

(***************************************************************************)
(* WatermarkProcessor(...) called directly.                                *)
(***************************************************************************)
LibConstruct ==
    /\ pc = "lib_start"
    /\ UNCHANGED << geomVars, blurVars, maskVars, schedVars >>
    /\ IF InitRejects(args.blur_intensity)
       THEN /\ exc' = "ValueError"
            /\ failure' = "config"
            /\ pc' = "rejected"
            /\ UNCHANGED processor
       ELSE /\ processor' = << NewProcessor(args) >>
            /\ pc' = "process_start"
            /\ UNCHANGED << exc, failure >>
    /\ UNCHANGED << args, video, cliCap, analyzerCap, cap, out, temp_exists,
                    temp_created, output_exists, metadata, positions, total_frames,
                    frame_number, frames_read, ret, written, progress, merge_calls >>

(***************************************************************************)
(* WatermarkProcessor.process().                                           *)
(***************************************************************************)
\* temp_video = tempfile.mktemp(...); with VideoAnalyzer(self.input_path) as analyzer:
\* analyze() and get_watermark_positions().
ProcessStart ==
    /\ pc = "process_start"
    /\ UNCHANGED << geomVars, blurVars, maskVars, schedVars >>
    /\ \E opened \in BOOLEAN :
         IF ~opened
         THEN /\ exc' = "ValueError"
              /\ failure' = "open_input"
              /\ pc' = "outer_finally"
              /\ UNCHANGED << analyzerCap, metadata, positions >>
         ELSE /\ analyzerCap' = "open"
              /\ metadata' = << analyze(video) >>
              /\ positions' = get_watermark_positions(video.width, video.height,
                                  processor[1].wm_width, processor[1].wm_height)
              /\ pc' = "open_capture"
              /\ UNCHANGED << exc, failure >>
    /\ UNCHANGED << args, video, processor, cliCap, cap, out, temp_exists, temp_created,
                    output_exists, total_frames, frame_number, frames_read, ret,
                    written, progress, merge_calls >>

\* cap = cv2.VideoCapture(self.input_path); if not cap.isOpened(): raise RuntimeError
OpenCapture ==
    /\ pc = "open_capture"
    /\ UNCHANGED << geomVars, blurVars, maskVars, schedVars >>
    /\ \E opened \in BOOLEAN :
         IF ~opened
         THEN /\ exc' = "RuntimeError"
              /\ failure' = "open_capture"
              /\ pc' = "with_exit"
              /\ UNCHANGED cap
         ELSE /\ cap' = "open"
              /\ pc' = "create_writer"
              /\ UNCHANGED << exc, failure >>
    /\ UNCHANGED << args, video, processor, cliCap, analyzerCap, out, temp_exists,
                    temp_created, output_exists, metadata, positions, total_frames,
                    frame_number, frames_read, ret, written, progress, merge_calls >>

\* out = cv2.VideoWriter(temp_video, ...); if not out.isOpened(): cap.release(); raise.
\* A writer that fails to open may or may not have left a file behind.
CreateWriter ==
    /\ pc = "create_writer"
    /\ UNCHANGED << geomVars, blurVars, maskVars, schedVars >>
    /\ \E opened \in BOOLEAN, left \in BOOLEAN :
         IF ~opened
         THEN /\ cap' = "released"
              /\ exc' = "RuntimeError"
              /\ failure' = "create_writer"
              /\ temp_exists' = left
              /\ temp_created' = left
              /\ pc' = "with_exit"
              /\ UNCHANGED out
         ELSE /\ left
              /\ out' = "open"
              /\ temp_exists' = TRUE
              /\ temp_created' = TRUE
              /\ pc' = "compute_total"
              /\ UNCHANGED << cap, exc, failure >>
    /\ UNCHANGED << args, video, processor, cliCap, analyzerCap, output_exists, metadata,
                    positions, total_frames, frame_number, frames_read, ret, written,
                    progress, merge_calls >>

\* total_frames = metadata.total_frames, capped by int(preview_duration * fps);
\* frame_number = 0.  These statements stand before the try of the frame loop.
ComputeTotal ==
    /\ pc = "compute_total"
    /\ UNCHANGED << geomVars, blurVars, maskVars, schedVars >>
    /\ IF PreviewOverflows(processor[1].preview_duration)
       THEN /\ exc' = "OverflowError"
            /\ failure' = "overflow"
            /\ pc' = "with_exit"
            /\ UNCHANGED << total_frames, frame_number >>
       ELSE /\ total_frames' = FrameLimit(metadata[1], processor[1].preview_duration)
            /\ frame_number' = 0
            /\ pc' = "loop"
            /\ UNCHANGED << exc, failure >>
    /\ UNCHANGED << args, video, processor, cliCap, analyzerCap, cap, out, temp_exists,
                    temp_created, output_exists, metadata, positions, frames_read, ret,
                    written, progress, merge_calls >>

(***************************************************************************)
(* The frame loop.  A written frame is recorded as the frame it was made   *)
(* from (src, the 0-based count of the read), the region index chosen and  *)
(* the region of interest the transform worked on.                         *)
(***************************************************************************)
current_roi(n) ==
    LET position_idx == get_position_index_for_frame(n, metadata[1].fps)
        current_position == positions[position_idx + 1]
    IN  RoiOf(current_position, video.width, video.height)

blurred_frame(src, n) ==
    [ src |-> src, idx |-> get_position_index_for_frame(n, metadata[1].fps),
      roi |-> current_roi(n) ]

\* while frame_number < total_frames: the condition is false.
LoopEnd ==
    /\ pc = "loop"
    /\ UNCHANGED << geomVars, blurVars, maskVars, schedVars >>
    /\ frame_number >= total_frames
    /\ pc' = "inner_finally"
    /\ UNCHANGED << args, video, processor, exc, failure, cliCap, analyzerCap, cap, out,
                    temp_exists, temp_created, output_exists, metadata, positions,
                    total_frames, frame_number, frames_read, ret, written, progress,
                    merge_calls >>

\* ret, frame = cap.read(); if not ret: break
ReadEnds ==
    /\ pc = "loop"
    /\ UNCHANGED << geomVars, blurVars, maskVars, schedVars >>
    /\ frame_number < total_frames
    /\ frames_read >= video.deliverable
    /\ ret' = FALSE
    /\ pc' = "inner_finally"
    /\ UNCHANGED << args, video, processor, exc, failure, cliCap, analyzerCap, cap, out,
                    temp_exists, temp_created, output_exists, metadata, positions,
                    total_frames, frame_number, frames_read, written, progress,
                    merge_calls >>

\* cap.read(), the transform or out.write() raises.
FrameRaises ==
    /\ pc = "loop"
    /\ UNCHANGED << geomVars, blurVars, maskVars, schedVars >>
    /\ frame_number < total_frames
    /\ \E after_read \in BOOLEAN :
         /\ after_read => frames_read < video.deliverable
         /\ frames_read' = IF after_read THEN frames_read + 1 ELSE frames_read
    /\ exc' = "cv2.error"
    /\ failure' = "frame"
    /\ pc' = "inner_finally"
    /\ UNCHANGED << args, video, processor, cliCap, analyzerCap, cap, out, temp_exists,
                    temp_created, output_exists, metadata, positions, total_frames,
                    frame_number, ret, written, progress, merge_calls >>

\* The slices of the region select nothing and the blur rejects the empty array.
EmptyRoiRaises ==
    /\ pc = "loop"
    /\ UNCHANGED << geomVars, blurVars, maskVars, schedVars >>
    /\ frame_number < total_frames
    /\ frames_read < video.deliverable
    /\ current_roi(frame_number).kind = "empty"
    /\ "raise" \in EmptyRoiOutcomes
    /\ frames_read' = frames_read + 1
    /\ exc' = "cv2.error"
    /\ failure' = "empty_roi"
    /\ pc' = "inner_finally"
    /\ UNCHANGED << args, video, processor, cliCap, analyzerCap, cap, out, temp_exists,
                    temp_created, output_exists, metadata, positions, total_frames,
                    frame_number, ret, written, progress, merge_calls >>

\* One iteration: read, choose the region, transform, write, report progress.
FrameStep ==
    /\ pc = "loop"
    /\ UNCHANGED << geomVars, blurVars, maskVars, schedVars >>
    /\ frame_number < total_frames
    /\ frames_read < video.deliverable
    /\ current_roi(frame_number).kind = "empty" => "noop" \in EmptyRoiOutcomes
    /\ ret' = TRUE
    /\ frames_read' = frames_read + 1
    /\ written' = Append(written, blurred_frame(frames_read, frame_number))
    /\ IF args.callback
       THEN /\ progress' = Append(progress, << frame_number + 1, total_frames >>)
            /\ \E raised \in BOOLEAN :
                 IF raised
                 THEN /\ exc' = "CallbackError"
                      /\ failure' = "callback"
                      /\ pc' = "inner_finally"
                      /\ UNCHANGED frame_number
                 ELSE /\ frame_number' = frame_number + 1
                      /\ UNCHANGED << exc, failure, pc >>
       ELSE /\ frame_number' = frame_number + 1
            /\ UNCHANGED << progress, exc, failure, pc >>
    /\ UNCHANGED << args, video, processor, cliCap, analyzerCap, cap, out, temp_exists,
                    temp_created, output_exists, metadata, positions, total_frames,
                    merge_calls >>

\* finally: cap.release(); out.release()
InnerFinally ==
    /\ pc = "inner_finally"
    /\ UNCHANGED << geomVars, blurVars, maskVars, schedVars >>
    /\ cap' = "released"
    /\ out' = "released"
    /\ pc' = "with_exit"
    /\ UNCHANGED << args, video, processor, exc, failure, cliCap, analyzerCap,
                    temp_exists, temp_created, output_exists, metadata, positions,
                    total_frames, frame_number, frames_read, ret, written, progress,
                    merge_calls >>

\* Mutant of WithExit: the exception is swallowed and the merge follows.
WithExitAlwaysMerge ==
    /\ pc = "with_exit"
    /\ UNCHANGED << geomVars, blurVars, maskVars, schedVars >>
    /\ analyzerCap' = "released"
    /\ pc' = "merge"
    /\ UNCHANGED << args, video, processor, exc, failure, cliCap, cap, out, temp_exists,
                    temp_created, output_exists, metadata, positions, total_frames,
                    frame_number, frames_read, ret, written, progress, merge_calls >>

\* VideoAnalyzer.__exit__: self.release()
WithExit ==
    /\ pc = "with_exit"
    /\ UNCHANGED << geomVars, blurVars, maskVars, schedVars >>
    /\ analyzerCap' = "released"
    /\ pc' = IF exc = "none" THEN "merge" ELSE "outer_finally"
    /\ UNCHANGED << args, video, processor, exc, failure, cliCap, cap, out, temp_exists,
                    temp_created, output_exists, metadata, positions, total_frames,
                    frame_number, frames_read, ret, written, progress, merge_calls >>

\* _merge_audio: subprocess.run(ffmpeg_cmd, check=True, ...).  A failing command is
\* CalledProcessError, re-raised as RuntimeError; a missing ffmpeg is FileNotFoundError,
\* which no except clause catches.
MergeAudio ==
    /\ pc = "merge"
    /\ UNCHANGED << geomVars, blurVars, maskVars, schedVars >>
    /\ merge_calls' = merge_calls + 1
    /\ \E result \in {"ok", "failed", "missing"} :
         /\ output_exists' = (result = "ok")
         /\ exc' = CASE result = "ok" -> "none"
                     [] result = "failed" -> "RuntimeError"
                     [] result = "missing" -> "FileNotFoundError"
         /\ failure' = CASE result = "ok" -> "none"
                         [] result = "failed" -> "merge_failed"
                         [] result = "missing" -> "ffmpeg_missing"
    /\ pc' = "outer_finally"
    /\ UNCHANGED << args, video, processor, cliCap, analyzerCap, cap, out, temp_exists,
                    temp_created, metadata, positions, total_frames, frame_number,
                    frames_read, ret, written, progress >>

\* Mutant of OuterFinally: the scratch file is removed on success only.
OuterFinallyOnSuccess ==
    /\ pc = "outer_finally"
    /\ UNCHANGED << geomVars, blurVars, maskVars, schedVars >>
    /\ temp_exists' = IF exc = "none" THEN FALSE ELSE temp_exists
    /\ pc' = IF exc = "none" THEN "returned" ELSE "raised"
    /\ UNCHANGED << args, video, processor, exc, failure, cliCap, analyzerCap, cap, out,
                    temp_created, output_exists, metadata, positions, total_frames,
                    frame_number, frames_read, ret, written, progress, merge_calls >>

\* finally: if os.path.exists(temp_video): os.remove(temp_video)
OuterFinally ==
    /\ pc = "outer_finally"
    /\ UNCHANGED << geomVars, blurVars, maskVars, schedVars >>
    /\ temp_exists' = FALSE
    /\ pc' = IF exc = "none" THEN "returned" ELSE "raised"
    /\ UNCHANGED << args, video, processor, exc, failure, cliCap, analyzerCap, cap, out,
                    temp_created, output_exists, metadata, positions, total_frames,
                    frame_number, frames_read, ret, written, progress, merge_calls >>

Next ==
    \/ CliValidate
    \/ CliOpen
    \/ CliConstruct
    \/ CliExit
    \/ LibConstruct
    \/ ProcessStart
    \/ OpenCapture
    \/ CreateWriter
    \/ ComputeTotal
    \/ LoopEnd
    \/ ReadEnds
    \/ FrameRaises
    \/ EmptyRoiRaises
    \/ FrameStep
    \/ InnerFinally
    \/ WithExit
    \/ MergeAudio
    \/ OuterFinally

Spec == Init /\ [][Next]_vars

(***************************************************************************)
(* Properties of the pipeline.                                             *)
(***************************************************************************)
Exited == pc \in {"returned", "raised", "cli_done", "cli_aborted"}

\* The frame loop has been left by its condition or by break, not by an exception.
LoopCompleted ==
    /\ out # "none"
    /\ pc \notin {"create_writer", "compute_total", "loop"}
    /\ failure \in {"none", "merge_failed", "ffmpeg_missing"}

C2_FramesInOrder ==
    LET total == IF args.preview[1] = "sec10"
                 THEN Min(video.total_frames, (args.preview[2] * video.fps) \div 10)
                 ELSE video.total_frames
    IN  /\ \A k \in 1..Len(written) :
              /\ written[k].src = k - 1
              /\ written[k].roi = RoiOf(positions[written[k].idx + 1],
                                        video.width, video.height)
        /\ LoopCompleted => Len(written) = Min(total, video.deliverable)
        /\ args.callback =>
              /\ Len(progress) = Len(written)
              /\ \A k \in 1..Len(progress) : progress[k] = << k, total >>
        /\ ~args.callback => progress = << >>
        /\ (~ret /\ pc \in {"inner_finally", "with_exit", "merge"}) => exc = "none"
        /\ ~ret => failure \in {"none", "merge_failed", "ffmpeg_missing"}

C2_Witness ==
    /\ pc = "returned"
    /\ args.preview = << "sec10", 50 >>
    /\ video.fps = 30
    /\ video.deliverable >= 300
    /\ Len(written) = 150
    /\ Len(progress) = 150
    /\ progress[150] = << 150, 150 >>

\* C3: an even or non-positive kernel size is rejected before anything is opened:
\* the constructor raises ValueError, the command line aborts, and no capture is
\* opened, no frame read, no file written.
C3_BadKernelRejected ==
    (args.blur_intensity <= 0 \/ args.blur_intensity % 2 = 0) =>
        /\ pc \in {"cli_start", "lib_start", "cli_aborted", "rejected"}
        /\ pc = "rejected" => exc = "ValueError"
        /\ pc = "cli_aborted" => exc = "Abort"
        /\ Len(processor) = 0
        /\ cliCap = "none" /\ analyzerCap = "none" /\ cap = "none" /\ out = "none"
        /\ frames_read = 0 /\ written = << >>
        /\ ~temp_created /\ ~output_exists

C3_Witness ==
    /\ pc = "rejected"
    /\ args.blur_intensity = 50
    /\ exc = "ValueError"
    /\ cap = "none"

\* The rectangle has no pixel inside a frame of the given size.
Degenerate(position, frame_w, frame_h) ==
    \/ Min(position.x + position.width, frame_w) - Max(position.x, 0) <= 0
    \/ Min(position.y + position.height, frame_h) - Max(position.y, 0) <= 0

\* C5: a rectangle with no pixel inside the frame leaves the frame unchanged and
\* raises nothing; the loop goes on.
C5_DegenerateIsNoop ==
    /\ \A k \in 1..Len(written) :
          Degenerate(positions[written[k].idx + 1], video.width, video.height)
              => written[k].roi.kind # "roi"
    /\ failure = "empty_roi" =>
          ~Degenerate(positions[get_position_index_for_frame(frame_number, video.fps) + 1],
                      video.width, video.height)

\* C6: once process() has returned or raised, the scratch file does not exist.
C6_ScratchRemoved == Exited => ~temp_exists

C6_Witness ==
    /\ pc = "raised"
    /\ failure = "callback"
    /\ temp_created
    /\ ~temp_exists

\* C7: no exit of process() leaves an opened capture or the writer unreleased
\* (stated for the default 139x51 box).
C7_AllReleased ==
    (Exited /\ args.box = << 139, 51 >>)
        => (analyzerCap # "open" /\ cap # "open" /\ out # "open")

\* C8: non-positive box dimensions are rejected by the constructor, so no processor
\* exists and process() never starts.
C8_BadBoxRejected ==
    (args.box[1] <= 0 \/ args.box[2] <= 0) =>
        /\ Len(processor) = 0
        /\ pc \in {"cli_start", "cli_open", "cli_construct", "cli_done", "cli_aborted",
                   "lib_start", "rejected"}

\* C9: a run-time failure of process() is raised as RuntimeError (stated for the
\* default 139x51 box).
C9_RuntimeErrorOnly ==
    (pc = "raised" /\ args.box = << 139, 51 >>
        /\ failure \in {"open_input", "open_capture", "create_writer",
                                   "merge_failed", "ffmpeg_missing"})
        => exc = "RuntimeError"

(***************************************************************************)
(* get_watermark_positions called on its own, several times, with frame    *)
(* and box sizes of any kind.                                              *)
(***************************************************************************)
MaxCalls == 2
GeomWidths == {5, 320, 1280, 1920}
GeomHeights == {200, 1080}
GeomBoxWidths == {0, 139, 400}
GeomBoxHeights == {51, 300}

GeomInit ==
    /\ GeomIdle
    /\ BlurIdle
    /\ MaskIdle
    /\ SchedIdle
    /\ args = << >>
    /\ video = << >>
    /\ pc = "idle"
    /\ processor = << >>
    /\ exc = "none"
    /\ failure = "none"
    /\ cliCap = "none"
    /\ analyzerCap = "none"
    /\ cap = "none"
    /\ out = "none"
    /\ temp_exists = FALSE
    /\ temp_created = FALSE
    /\ output_exists = FALSE
    /\ metadata = << >>
    /\ positions = << >>
    /\ total_frames = 0
    /\ frame_number = 0
    /\ frames_read = 0
    /\ ret = TRUE
    /\ written = << >>
    /\ progress = << >>
    /\ merge_calls = 0

GeomCall ==
    /\ Len(geom_calls) < MaxCalls
    /\ \E w \in GeomWidths, h \in GeomHeights,
          wm_width \in GeomBoxWidths, wm_height \in GeomBoxHeights :
         geom_calls' = Append(geom_calls,
             [ w |-> w, h |-> h, wm_width |-> wm_width, wm_height |-> wm_height,
               positions |-> get_watermark_positions(w, h, wm_width, wm_height) ])
    /\ UNCHANGED << pipeVars, blurVars, maskVars, schedVars >>

GeomNext == GeomCall

SpecGeom == GeomInit /\ [][GeomNext]_vars

\* The arguments of two calls agree.
SameGeomArgs(a, b) ==
    a.w = b.w /\ a.h = b.h /\ a.wm_width = b.wm_width /\ a.wm_height = b.wm_height

\* The calls differ in the frame width only, a's being the smaller.
WiderFrame(a, b) ==
    a.h = b.h /\ a.wm_width = b.wm_width /\ a.wm_height = b.wm_height /\ a.w < b.w

\* C10 as stated: calls with equal arguments return the same three rectangles, and
\* with the box and the frame height fixed, region 1's x strictly decreases as the
\* frame width grows.
C10_XDecreasesWithWidth ==
    \A i, j \in 1..Len(geom_calls) :
        /\ SameGeomArgs(geom_calls[i], geom_calls[j])
              => geom_calls[i].positions = geom_calls[j].positions
        /\ WiderFrame(geom_calls[i], geom_calls[j])
              => geom_calls[i].positions[2].x > geom_calls[j].positions[2].x

\* C10 amended: calls with equal arguments return the same three rectangles, and with
\* the box and the frame height fixed, region 1's x strictly increases with the frame
\* width, by exactly the difference of the widths (its right edge stays right_margin
\* pixels from the frame's right edge).
C10_XIncreasesWithWidth ==
    \A i, j \in 1..Len(geom_calls) :
        /\ SameGeomArgs(geom_calls[i], geom_calls[j])
              => geom_calls[i].positions = geom_calls[j].positions
        /\ WiderFrame(geom_calls[i], geom_calls[j])
              => /\ geom_calls[i].positions[2].x < geom_calls[j].positions[2].x
                 /\ geom_calls[j].positions[2].x - geom_calls[i].positions[2].x
                        = geom_calls[j].w - geom_calls[i].w

C10_Witness ==
    /\ Len(geom_calls) = 2
    /\ geom_calls[1].w = 1280 /\ geom_calls[2].w = 1920
    /\ geom_calls[1].h = geom_calls[2].h
    /\ geom_calls[1].wm_width = 139 /\ geom_calls[2].wm_width = 139
    /\ geom_calls[1].wm_height = geom_calls[2].wm_height
    /\ geom_calls[1].positions[2].x = 1131
    /\ geom_calls[2].positions[2].x = 1771

(***************************************************************************)
(* _apply_blur_to_region on pixel grids.  A frame is a grid of rows        *)
(* 0..h-1 and columns 0..w-1 of pixels, a pixel a triple of 8-bit          *)
(* channels.  Arithmetic is exact where the code computes in float32; the  *)
(* cast back to 8 bits truncates, as the array assignment does.            *)
(***************************************************************************)
FrameH(f) == Cardinality(DOMAIN f)
FrameW(f) == Cardinality(DOMAIN f[0])

\* A function as an explicit array (a numpy array holds its values).
Array(f) == f @@ << >>

RECURSIVE SeqSum(_)
SeqSum(s) == IF s = << >> THEN 0 ELSE Head(s) + SeqSum(Tail(s))

\* cv2 BORDER_REFLECT_101, the default border of both filters.
RECURSIVE Reflect101(_, _)
Reflect101(p, len) ==
    IF len = 1 THEN 0
    ELSE IF p < 0 THEN Reflect101(0 - p, len)
    ELSE IF p >= len THEN Reflect101(2 * len - 2 - p, len)
    ELSE p

\* The Gaussian kernels OpenCV uses for sigma = 0 and a small ksize, as integer
\* taps over their sum.
GaussianTaps(ksize) ==
    CASE ksize = 1 -> << 1 >>
      [] ksize = 3 -> << 1, 2, 1 >>
      [] ksize = 5 -> << 1, 4, 6, 4, 1 >>

\* cv2.GaussianBlur(img, (ksize, ksize), 0) on an 8-bit image: the separable filter,
\* rounded once at the end.
GaussianBlur(img, ksize) ==
    LET h == FrameH(img)
        w == FrameW(img)
        taps == GaussianTaps(ksize)
        half == ksize \div 2
        norm == SeqSum(taps) * SeqSum(taps)
        across(r, c, ch) ==
            SeqSum([j \in 1..ksize |->
                taps[j] * img[r][Reflect101(c + j - 1 - half, w)][ch]])
        rows == Array([r \in 0..h-1 |-> Array([c \in 0..w-1 |->
                    << across(r, c, 1), across(r, c, 2), across(r, c, 3) >>])])
        down(r, c, ch) ==
            (SeqSum([i \in 1..ksize |->
                 taps[i] * rows[Reflect101(r + i - 1 - half, h)][c][ch]])
             + norm \div 2) \div norm
    IN  Array([r \in 0..h-1 |-> Array([c \in 0..w-1 |->
            << down(r, c, 1), down(r, c, 2), down(r, c, 3) >>])])

bilateral_d == 9

\* cv2.bilateralFilter(img, d=9, sigmaColor=75, sigmaSpace=75): the window is the disc
\* of radius 4.  With sigmas of 75 the weights of a window over nearly equal
\* pixels are all 1 to within rounding, so the result is the rounded mean.
bilateralFilter(img) ==
    LET h == FrameH(img)
        w == FrameW(img)
        radius == bilateral_d \div 2
        window == { << i, j >> \in ((0 - radius)..radius) \X ((0 - radius)..radius) :
                      i * i + j * j <= radius * radius }
        offsets == Array([r \in 0..h-1 |-> Array([i \in (0 - radius)..radius |->
                       Reflect101(r + i, h)])])
        across == Array([c \in 0..w-1 |-> Array([j \in (0 - radius)..radius |->
                       Reflect101(c + j, w)])])
        count == Cardinality(window)
        RECURSIVE total(_, _, _, _)
        total(S, r, c, ch) ==
            IF S = {} THEN 0
            ELSE LET o == CHOOSE x \in S : TRUE
                 IN  img[offsets[r][o[1]]][across[c][o[2]]][ch]
                         + total(S \ {o}, r, c, ch)
        mean(r, c, ch) == (2 * total(window, r, c, ch) + count) \div (2 * count)
    IN  Array([r \in 0..h-1 |-> Array([c \in 0..w-1 |->
            << mean(r, c, 1), mean(r, c, 2), mean(r, c, 3) >>])])

\* A mask value is a fraction << numerator, denominator >>.
Scaled(v, i, feather_size, times) ==
    IF times = 0 THEN v
    ELSE IF times = 1 THEN << v[1] * i, v[2] * feather_size >>
    ELSE << v[1] * i * i, v[2] * feather_size * feather_size >>

\* Mutant of MaskPass: alpha = (i + 1) / feather_size.
MaskPassFromOne(mask, i, width, height, feather_size) ==
    IF i < height /\ i < width
    THEN Array([r \in 0..height-1 |-> Array([c \in 0..width-1 |->
            Scaled(Scaled(mask[r][c], i + 1, feather_size,
                          (IF r = i THEN 1 ELSE 0) + (IF r = height - 1 - i THEN 1 ELSE 0)),
                   i + 1, feather_size,
                   (IF c = i THEN 1 ELSE 0) + (IF c = width - 1 - i THEN 1 ELSE 0))])])
    ELSE mask

\* One pass of the loop of _create_feathered_mask: rows i and -(i+1), then
\* columns i and -(i+1), are multiplied by alpha = i / feather_size.
MaskPass(mask, i, width, height, feather_size) ==
    IF i < height /\ i < width
    THEN Array([r \in 0..height-1 |-> Array([c \in 0..width-1 |->
            Scaled(Scaled(mask[r][c], i, feather_size,
                          (IF r = i THEN 1 ELSE 0) + (IF r = height - 1 - i THEN 1 ELSE 0)),
                   i, feather_size,
                   (IF c = i THEN 1 ELSE 0) + (IF c = width - 1 - i THEN 1 ELSE 0))])])
    ELSE mask

RECURSIVE MaskLoop(_, _, _, _, _)
MaskLoop(mask, i, width, height, feather_size) ==
    IF i >= feather_size THEN mask
    ELSE MaskLoop(MaskPass(mask, i, width, height, feather_size), i + 1,
                  width, height, feather_size)

\* _create_feathered_mask
create_feathered_mask(width, height, feather_size) ==
    MaskLoop(Array([r \in 0..height-1 |-> Array([c \in 0..width-1 |-> << 1, 1 >>])]), 0,
             width, height, feather_size)

standard_feather == 10
advanced_feather == 15

\* The blurred region of interest of the two classes.
blurred_roi(roi, blur_intensity, advanced) ==
    IF advanced
    THEN GaussianBlur(GaussianBlur(bilateralFilter(roi), blur_intensity), blur_intensity)
    ELSE GaussianBlur(roi, blur_intensity)

\* One channel of one pixel of blurred_roi * mask + roi * (1 - mask), stored in an
\* 8-bit array: m is the mask value, a fraction.
blend_value(blurred, original, m) ==
    (blurred * m[1] + original * (m[2] - m[1])) \div m[2]

\* result = frame.copy(); result[y:y_end, x:x_end, c] =
\*     blurred_roi[:, :, c] * mask + roi[:, :, c] * (1 - mask)
blend_into(f, region, blurred, mask) ==
    LET blended(r, c, ch) ==
            blend_value(blurred[r - region.r0][c - region.c0][ch], f[r][c][ch],
                        mask[r - region.r0][c - region.c0])
    IN  Array([r \in 0..(FrameH(f) - 1) |-> Array([c \in 0..(FrameW(f) - 1) |->
            IF r >= region.r0 /\ r < region.r1 /\ c >= region.c0 /\ c < region.c1
            THEN << blended(r, c, 1), blended(r, c, 2), blended(r, c, 3) >>
            ELSE f[r][c]])])

\* _apply_blur_to_region of WatermarkProcessor (advanced = FALSE) and of
\* AdvancedWatermarkProcessor (advanced = TRUE), for a region that is not empty.
apply_blur_to_region(f, pos, blur_intensity, advanced) ==
    LET region == RoiOf(pos, FrameW(f), FrameH(f))
        roi == Array([r \in 0..(region.r1 - region.r0 - 1) |->
                   Array([c \in 0..(region.c1 - region.c0 - 1) |->
                       f[region.r0 + r][region.c0 + c]])])
        mask == create_feathered_mask(region.c1 - region.c0, region.r1 - region.r0,
                    IF advanced THEN advanced_feather ELSE standard_feather)
    IN  IF region.kind = "roi"
        THEN blend_into(f, region, blurred_roi(roi, blur_intensity, advanced), mask)
        ELSE f

(***************************************************************************)
(* _apply_blur_to_region called on its own with frames and rectangles of   *)
(* any kind.                                                               *)
(***************************************************************************)
BlurFrameW == 5
BlurFrameH == 4
MaxOffset == 4
MaxBox == 3
BlurKernels == {3, 5}

\* Two frames of low contrast.
TestFrame(pattern) ==
    Array([r \in 0..BlurFrameH-1 |-> Array([c \in 0..BlurFrameW-1 |->
        IF pattern = 1
        THEN << 100 + ((3 * r + 2 * c) % 5), 60 + ((r + c) % 3), 200 + ((r * c) % 4) >>
        ELSE << 10 + ((r * c) % 4), 12 - ((r + 2 * c) % 4), 10 >>])])

BlurPositions ==
    { WatermarkPosition(px, py, pw, ph) :
        px \in (0 - MaxOffset)..BlurFrameW, py \in (0 - MaxOffset)..BlurFrameH,
        pw \in (0 - 1)..MaxBox, ph \in (0 - 1)..MaxBox }

BlurInit ==
    /\ GeomIdle
    /\ MaskIdle
    /\ SchedIdle
    /\ \E pattern \in 1..2, advanced \in BOOLEAN, blur_intensity \in BlurKernels :
         /\ blur_args = [ pattern |-> pattern, advanced |-> advanced,
                          blur_intensity |-> blur_intensity ]
         /\ blur_frame = TestFrame(pattern)
    /\ blur_position \in BlurPositions
    /\ blur_pc = "call"
    /\ blur_result = << >>
    /\ args = << >>
    /\ video = << >>
    /\ pc = "idle"
    /\ processor = << >>
    /\ exc = "none"
    /\ failure = "none"
    /\ cliCap = "none"
    /\ analyzerCap = "none"
    /\ cap = "none"
    /\ out = "none"
    /\ temp_exists = FALSE
    /\ temp_created = FALSE
    /\ output_exists = FALSE
    /\ metadata = << >>
    /\ positions = << >>
    /\ total_frames = 0
    /\ frame_number = 0
    /\ frames_read = 0
    /\ ret = TRUE
    /\ written = << >>
    /\ progress = << >>
    /\ merge_calls = 0

\* The caller's buffer after the call: the writes went to frame.copy().
frame_after_call(f, returned) == f

\* The call returns: the early return, or the blend over the region of interest.
BlurReturns ==
    /\ blur_pc = "call"
    /\ RoiOf(blur_position, FrameW(blur_frame), FrameH(blur_frame)).kind # "empty"
    /\ blur_result' = apply_blur_to_region(blur_frame, blur_position,
                          blur_args.blur_intensity, blur_args.advanced)
    /\ blur_frame' = frame_after_call(blur_frame, blur_result')
    /\ blur_pc' = "returned"
    /\ UNCHANGED << blur_position, blur_args, geomVars, pipeVars, maskVars, schedVars >>

\* The slices select nothing: the filter is called on an empty array.
BlurEmptyRoi ==
    /\ blur_pc = "call"
    /\ RoiOf(blur_position, FrameW(blur_frame), FrameH(blur_frame)).kind = "empty"
    /\ \E outcome \in EmptyRoiOutcomes :
         IF outcome = "raise"
         THEN /\ blur_pc' = "raised"
              /\ UNCHANGED << blur_result, blur_frame >>
         ELSE /\ blur_pc' = "returned"
              /\ blur_result' = blur_frame
              /\ blur_frame' = frame_after_call(blur_frame, blur_result')
    /\ UNCHANGED << blur_position, blur_args, geomVars, pipeVars, maskVars, schedVars >>

BlurNext == BlurReturns \/ BlurEmptyRoi

SpecBlur == BlurInit /\ [][BlurNext]_vars

\* The pixel lies in the rectangle clamped to the frame.
InClamped(pos, f, r, c) ==
    /\ r >= Max(pos.y, 0) /\ r < Min(pos.y + pos.height, FrameH(f))
    /\ c >= Max(pos.x, 0) /\ c < Min(pos.x + pos.width, FrameW(f))

\* C4: for both classes, the returned frame has the input's dimensions, every pixel
\* outside the rectangle clamped to the frame equals the input's pixel, and the
\* input buffer is not modified.
C4_OutsideUntouched ==
    blur_pc = "returned" =>
        LET original == TestFrame(blur_args.pattern)
        IN  /\ DOMAIN blur_result = DOMAIN original
            /\ \A r \in DOMAIN original : DOMAIN blur_result[r] = DOMAIN original[r]
            /\ \A r \in DOMAIN original : \A c \in DOMAIN original[r] :
                  ~InClamped(blur_position, original, r, c)
                      => blur_result[r][c] = original[r][c]
            /\ blur_frame = original

(***************************************************************************)
(* _create_feathered_mask called on its own, with any width and height of  *)
(* at least 1 and any feather size, and with the sizes the two classes use *)
(* on the default rectangle.                                               *)
(***************************************************************************)
MaxMaskW == 8
MaxMaskH == 8
MaxFeather == 5

MaskShapes ==
    { [ width |-> w, height |-> h, feather_size |-> k ] :
        w \in 1..MaxMaskW, h \in 1..MaxMaskH, k \in 0..MaxFeather }
    \cup { [ width |-> 139, height |-> 51, feather_size |-> k ] :
             k \in {standard_feather, advanced_feather} }

\* No pipeline run is in progress.
PipeIdle ==
    /\ args = << >>
    /\ video = << >>
    /\ pc = "idle"
    /\ processor = << >>
    /\ exc = "none"
    /\ failure = "none"
    /\ cliCap = "none"
    /\ analyzerCap = "none"
    /\ cap = "none"
    /\ out = "none"
    /\ temp_exists = FALSE
    /\ temp_created = FALSE
    /\ output_exists = FALSE
    /\ metadata = << >>
    /\ positions = << >>
    /\ total_frames = 0
    /\ frame_number = 0
    /\ frames_read = 0
    /\ ret = TRUE
    /\ written = << >>
    /\ progress = << >>
    /\ merge_calls = 0

MaskInit ==
    /\ PipeIdle
    /\ GeomIdle
    /\ BlurIdle
    /\ SchedIdle
    /\ mask_args \in MaskShapes
    /\ mask_pc = "call"
    /\ mask_result = << >>

\* mask[i, :], mask[-(i+1), :], mask[:, i] or mask[:, -(i+1)] is out of range in some
\* pass of the loop that the guard lets through.
MaskIndexError(width, height, feather_size) ==
    \E i \in 0..(feather_size - 1) :
        /\ i < height /\ i < width
        /\ (i >= height \/ i + 1 > height \/ i >= width \/ i + 1 > width)

\* The call returns the mask, or raises IndexError.
MaskCall ==
    /\ mask_pc = "call"
    /\ IF MaskIndexError(mask_args.width, mask_args.height, mask_args.feather_size)
       THEN /\ mask_pc' = "raised"
            /\ UNCHANGED mask_result
       ELSE /\ mask_pc' = "returned"
            /\ mask_result' = create_feathered_mask(mask_args.width, mask_args.height,
                                                    mask_args.feather_size)
    /\ UNCHANGED << mask_args, pipeVars, geomVars, blurVars, schedVars >>

MaskNext == MaskCall

SpecMask == MaskInit /\ [][MaskNext]_vars

\* Fractions: equality, and the values 0 and 1.
FracEq(a, b) == a[1] * b[2] = b[1] * a[2]
FracZero(a) == a[1] = 0 /\ a[2] # 0
FracOne(a) == a[1] = a[2] /\ a[2] # 0

\* Channel values the blend is tried on.
PixelSamples == {0, 1, 17, 128, 255}

\* The pixel is feather_size or more pixels away from all four edges.
Interior(r, c, width, height, feather_size) ==
    /\ r >= feather_size /\ height - 1 - r >= feather_size
    /\ c >= feather_size /\ width - 1 - c >= feather_size

\* C11: with feather size 0 every mask value is exactly 1; with 0 < k < min(width,
\* height) / 2 the four corner pixels are exactly 0 and every pixel k or more pixels
\* away from all four edges, the exact centre included, is exactly 1, so that the
\* blend there is the blurred value, whatever the original value.
C11_CornersAndInterior ==
    mask_pc = "returned" =>
        LET width == mask_args.width
            height == mask_args.height
            k == mask_args.feather_size
        IN  /\ k = 0 =>
                  \A r \in 0..height-1 : \A c \in 0..width-1 : mask_result[r][c] = << 1, 1 >>
            /\ (k > 0 /\ 2 * k < Min(width, height)) =>
                  /\ \A r \in {0, height - 1} : \A c \in {0, width - 1} :
                        FracZero(mask_result[r][c])
                  /\ FracOne(mask_result[(height - 1) \div 2][(width - 1) \div 2])
                  /\ FracOne(mask_result[height \div 2][width \div 2])
                  /\ \A r \in 0..height-1 : \A c \in 0..width-1 :
                        Interior(r, c, width, height, k) =>
                            /\ FracOne(mask_result[r][c])
                            /\ \A b \in PixelSamples, o \in PixelSamples :
                                  blend_value(b, o, mask_result[r][c]) = b

\* The default rectangle with the standard feather: corners 0, the centre 1.
C11_Witness ==
    /\ mask_pc = "returned"
    /\ mask_args = [ width |-> 139, height |-> 51, feather_size |-> standard_feather ]
    /\ FracZero(mask_result[0][0]) /\ FracZero(mask_result[50][138])
    /\ FracOne(mask_result[25][69])
    /\ blend_value(17, 255, mask_result[25][69]) = 17

\* The ramp factor of one edge at distance d.
Ramp(d, feather_size) == IF d < feather_size THEN << d, feather_size >> ELSE << 1, 1 >>

FracMul(a, b) == << a[1] * b[1], a[2] * b[2] >>

\* The product of the ramp factors of the four edges, each taken on its own.
RampProduct(r, c, width, height, feather_size) ==
    FracMul(FracMul(Ramp(r, feather_size), Ramp(height - 1 - r, feather_size)),
            FracMul(Ramp(c, feather_size), Ramp(width - 1 - c, feather_size)))

\* C13: for every width >= 1, height >= 1 and feather size >= 0 the call does not
\* fail, every mask value lies in [0, 1] and equals the product of the ramp factors
\* of the four edges taken independently, also when the ramps overlap and when the
\* rectangle is narrower or shorter than the feather size.
C13_ProductOfRamps ==
    /\ mask_pc # "raised"
    /\ mask_pc = "returned" =>
           \A r \in 0..(mask_args.height - 1) : \A c \in 0..(mask_args.width - 1) :
               /\ mask_result[r][c][2] > 0
               /\ mask_result[r][c][1] >= 0
               /\ mask_result[r][c][1] <= mask_result[r][c][2]
               /\ FracEq(mask_result[r][c],
                         RampProduct(r, c, mask_args.width, mask_args.height,
                                     mask_args.feather_size))

(***************************************************************************)
(* get_position_index_for_frame called on its own, on any frame numbers in *)
(* any order and with any frame rate.  The state keeps the calls made on   *)
(* the current VideoAnalyzer, which is used for two calls and then left    *)
(* for a new one.                                                          *)
(***************************************************************************)
MaxSchedFrame == 460
SchedFps == {24, 30}

SchedInit ==
    /\ PipeIdle
    /\ GeomIdle
    /\ BlurIdle
    /\ MaskIdle
    /\ sched_calls = << >>

SchedCall ==
    /\ Len(sched_calls) < 2
    /\ \E frame \in 0..MaxSchedFrame, fps \in SchedFps :
         sched_calls' = Append(sched_calls,
             [ frame_number |-> frame, fps |-> fps,
               result |-> get_position_index_for_frame(frame, fps) ])
    /\ UNCHANGED << pipeVars, geomVars, blurVars, maskVars >>

\* The analyzer is released and the next calls go to a new one.
SchedNewAnalyzer ==
    /\ Len(sched_calls) = 2
    /\ sched_calls' = << >>
    /\ UNCHANGED << pipeVars, geomVars, blurVars, maskVars >>

SchedNext == SchedCall \/ SchedNewAnalyzer

SpecSched == SchedInit /\ [][SchedNext]_vars

PreMergeFailures ==
    {"config", "open_input", "open_capture", "create_writer", "overflow", "frame",
     "empty_roi", "callback"}

\* This step invokes _merge_audio; this step removes the scratch file.
MergeInvoked == merge_calls' = merge_calls + 1
ScratchRemoved == temp_exists /\ ~temp_exists'

\* At most one merge; none after a failure of opening, of the writer or of the loop;
\* and a merge starts with the loop ended and both capture and writer released.
MergeInPlace ==
    /\ [](merge_calls <= 1)
    /\ [](failure \in PreMergeFailures => merge_calls = 0)
    /\ [][MergeInvoked =>
            /\ merge_calls = 0
            /\ exc = "none" /\ failure = "none"
            /\ (frame_number >= total_frames \/ ~ret)
            /\ cap = "released" /\ out = "released"
            /\ temp_exists]_vars

\* C14 as stated: the merge is invoked at most once, only after the frame loop has
\* ended and capture and writer have been released, never after a failure of opening
\* the input, of creating the writer or of a step of the loop; and the scratch file is
\* removed only after the merge has returned or raised (the removal is stated for
\* runs with the default 139x51 box and a finite preview length whose writer opened).
C14_RemovedOnlyAfterMerge ==
    /\ MergeInPlace
    /\ [][(ScratchRemoved /\ out # "none" /\ args.preview # << "inf" >>
                /\ args.box = << 139, 51 >>)
            => (merge_calls = 1 /\ pc # "merge")]_vars

\* C14 as amended: the same about the merge; when the merge is invoked the scratch
\* file is removed only after it has returned or raised, and when a failure keeps the
\* merge from being invoked the outer finally removes the scratch file without one.
C14_MergeThenRemoval ==
    /\ MergeInPlace
    /\ [][ScratchRemoved =>
            /\ pc = "outer_finally"
            /\ \/ merge_calls = 1 /\ failure \notin PreMergeFailures
               \/ merge_calls = 0 /\ failure \in PreMergeFailures]_vars

\* The merge ran once and failed, and the scratch file was removed after it.
C14_Witness ==
    /\ pc = "raised"
    /\ failure = "merge_failed"
    /\ merge_calls = 1
    /\ cap = "released" /\ out = "released"
    /\ temp_created /\ ~temp_exists
====
